---- MODULE Spec2Model ----
(***************************************************************************)
(* State-machine model of src/script.js: the page-load script (chart       *)
(* setup, anchor click binding, IntersectionObserver setup, hiding of the  *)
(* animated elements) and the two callbacks it registers (anchor click     *)
(* handler, intersection callback).                                        *)
(*                                                                         *)
(* Encodings: an href is a sequence of tokens, <<"#", "home">> for "#home" *)
(* and <<"#">> for "#"; an intersection ratio is an integer percentage     *)
(* (0.1 is 10); inline style values are the strings the script assigns.    *)
(***************************************************************************)
EXTENDS Integers, Sequences, FiniteSets, TLC

VARIABLES
    heroChartEl,   \* what document.getElementById('heroChart') finds
    markup,        \* the class list each node has in the page markup
    dom,           \* the nodes: tag, classList, position, inline style
    pc,            \* position of the top-level script
    chart,         \* the configuration handed to new Chart(...)
    bound,         \* anchors that carry the click listener
    observer,      \* the IntersectionObserver (its options) once created
    observed,      \* nodes passed to observer.observe
    scrolls,       \* scrollIntoView requests issued, in order
    navigations,   \* default navigations the browser performed, in order
    errors,        \* uncaught exceptions reported, in order
    clicks,        \* number of clicks dispatched so far
    notified,      \* nodes that have appeared in a delivered entry
    revisited,     \* nodes that got an intersecting entry while Visible
    changes,       \* per node, how many callback entries mutated it
    last           \* the last event dispatched

vars == <<heroChartEl, markup, dom, pc, chart, bound, observer, observed,
          scrolls, navigations, errors, clicks, notified, revisited,
          changes, last>>

----------------------------------------------------------------------------
(* Bounds *)

MaxClicks == 2
MaxBatch == 2

----------------------------------------------------------------------------
(* The document *)

Nodes == {"n1", "n2"}
Anchors == {"a1", "a2", "a3", "a4", "a5"}
DocumentIds == {"home", "about"}

Href(a) ==
    CASE a = "a1" -> <<"#", "home">>
      [] a = "a2" -> <<"#", "about">>
      [] a = "a3" -> <<"#", "team">>
      [] a = "a4" -> <<"#">>
      [] OTHER    -> <<"page.html">>

HeroChartKinds == {"canvas", "div", "absent"}

NoStyle == [opacity |-> "", transform |-> "", transition |-> ""]

GlassCard ==
    [tag |-> "div", classList |-> <<"glass-card">>, inOutcomesList |-> FALSE, style |-> NoStyle]
MemberCard ==
    [tag |-> "div", classList |-> <<"member-card">>, inOutcomesList |-> FALSE, style |-> NoStyle]
OutcomeItem ==
    [tag |-> "li", classList |-> <<>>, inOutcomesList |-> TRUE, style |-> NoStyle]
PlainItem ==
    [tag |-> "li", classList |-> <<>>, inOutcomesList |-> FALSE, style |-> NoStyle]

WithClass(node, c) == [node EXCEPT !.classList = Append(@, c)]

\* The page markups considered: the nodes n1 and n2 of each.
Pages ==
    {<<GlassCard, OutcomeItem>>,
     <<MemberCard, PlainItem>>,
     <<WithClass(GlassCard, "visible"), PlainItem>>,
     <<WithClass(MemberCard, "visible"), PlainItem>>}

Has(seq, x) == \E i \in 1..Len(seq) : seq[i] = x

----------------------------------------------------------------------------
(* Chart setup, lines 2-41 *)

NoChart == [type |-> "none"]

Gradient == <<[offset |-> 0, color |-> "rgba(0, 255, 170, 0.5)"],
              [offset |-> 1, color |-> "rgba(0, 255, 170, 0)"]>>

\* Mutation: two samples of the dataset swapped.
HeroChartConfig_Swapped ==
    [type     |-> "line",
     labels   |-> <<"Jan", "Feb", "Mar", "Apr", "May", "Jun", "Jul">>,
     label    |-> "Market Volatility Index",
     data     |-> <<65, 59, 81, 80, 56, 95, 75>>,
     backgroundColor |-> Gradient]

HeroChartConfig ==
    [type     |-> "line",
     labels   |-> <<"Jan", "Feb", "Mar", "Apr", "May", "Jun", "Jul">>,
     label    |-> "Market Volatility Index",
     data     |-> <<65, 59, 80, 81, 56, 95, 75>>,
     backgroundColor |-> Gradient]

\* getElementById(...).getContext('2d'): only a canvas has getContext;
\* null.getContext and a call of undefined both throw a TypeError.
GetContextThrows(el) == el # "canvas"

ChartSetup ==
    /\ pc = "chart"
    /\ IF GetContextThrows(heroChartEl)
         THEN /\ errors' = Append(errors, "TypeError")
              /\ pc' = "aborted"
              /\ chart' = chart
         ELSE /\ chart' = HeroChartConfig
              /\ pc' = "anchors"
              /\ errors' = errors
    /\ UNCHANGED <<heroChartEl, markup, dom, bound, observer, observed,
                   scrolls, navigations, clicks, notified, revisited,
                   changes, last>>

----------------------------------------------------------------------------
(* Smooth scroll, lines 44-51 *)

\* a[href^="#"]
StartsWithHash(href) == Len(href) >= 1 /\ href[1] = "#"

SelectedAnchors == {a \in Anchors : StartsWithHash(Href(a))}

\* document.querySelector(sel) for a selector taken from an href: "#" alone
\* is not a valid selector, "#id" finds the element with that id or null.
QuerySelector(sel) ==
    IF Len(sel) < 2 THEN [status |-> "SyntaxError"]
    ELSE IF sel[2] \in DocumentIds THEN [status |-> "found", el |-> sel[2]]
    ELSE [status |-> "null"]

BindAnchors ==
    /\ pc = "anchors"
    /\ bound' = SelectedAnchors
    /\ pc' = "observer"
    /\ UNCHANGED <<heroChartEl, markup, dom, chart, observer, observed,
                   scrolls, navigations, errors, clicks, notified,
                   revisited, changes, last>>

ScriptEnded == pc \in {"done", "aborted"}

\* The click listener of lines 45-50: preventDefault, then the lookup and
\* scrollIntoView; a null result or an invalid selector throws.
ClickHandler(a) ==
    /\ ScriptEnded
    /\ clicks < MaxClicks
    /\ a \in bound
    /\ LET r == QuerySelector(Href(a)) IN
         IF r.status = "found"
           THEN /\ scrolls' = Append(scrolls, [target |-> r.el, behavior |-> "smooth"])
                /\ errors' = errors
           ELSE /\ errors' = Append(errors, IF r.status = "null" THEN "TypeError" ELSE "SyntaxError")
                /\ scrolls' = scrolls
    /\ clicks' = clicks + 1
    /\ last' = [kind |-> "click", anchor |-> a]
    /\ UNCHANGED <<heroChartEl, markup, dom, pc, chart, bound, observer,
                   observed, navigations, notified, revisited, changes>>

\* A click on an anchor without the listener: the browser follows the href.
ClickDefault(a) ==
    /\ ScriptEnded
    /\ clicks < MaxClicks
    /\ a \notin bound
    /\ navigations' = Append(navigations, Href(a))
    /\ clicks' = clicks + 1
    /\ last' = [kind |-> "click", anchor |-> a]
    /\ UNCHANGED <<heroChartEl, markup, dom, pc, chart, bound, observer,
                   observed, scrolls, errors, notified, revisited, changes>>

----------------------------------------------------------------------------
(* Reveal on scroll, lines 54-75 *)

ThresholdPct == 10

NoObserver == [threshold |-> -1]

observerOptions == [threshold |-> ThresholdPct]

CreateObserver ==
    /\ pc = "observer"
    /\ observer' = observerOptions
    /\ pc' = "animate"
    /\ UNCHANGED <<heroChartEl, markup, dom, chart, bound, observed,
                   scrolls, navigations, errors, clicks, notified,
                   revisited, changes, last>>

\* '.glass-card, .member-card, .outcomes-list li'
MatchesAnimated(node) ==
    \/ Has(node.classList, "glass-card")
    \/ Has(node.classList, "member-card")
    \/ (node.tag = "li" /\ node.inOutcomesList)

animatedElements(d) == {n \in Nodes : MatchesAnimated(d[n])}

\* Mutation: the initial opacity written as 1.
HiddenStyle_Opaque ==
    [opacity    |-> ToString(1),
     transform  |-> "translateY(20px)",
     transition |-> "opacity 0.6s ease-out, transform 0.6s ease-out"]

HiddenStyle ==
    [opacity    |-> ToString(0),
     transform  |-> "translateY(20px)",
     transition |-> "opacity 0.6s ease-out, transform 0.6s ease-out"]

AnimateElements ==
    /\ pc = "animate"
    /\ dom' = [n \in Nodes |->
                 IF n \in animatedElements(dom)
                   THEN [dom[n] EXCEPT !.style = HiddenStyle]
                   ELSE dom[n]]
    /\ observed' = animatedElements(dom)
    /\ pc' = "done"
    /\ UNCHANGED <<heroChartEl, markup, chart, bound, observer, scrolls,
                   navigations, errors, clicks, notified, revisited,
                   changes, last>>

\* Mutation: the token is appended even when already present.
ClassListAdd_Duplicating(list, token) == Append(list, token)

\* classList.add(token): a DOMTokenList holds each token once.
ClassListAdd(list, token) ==
    IF Has(list, token) THEN list ELSE Append(list, token)

\* Mutation: an entry that is not intersecting hides its target again.
RevealEntry_HideOnLeave(d, entry) ==
    IF entry.isIntersecting
      THEN [d EXCEPT ![entry.target] =
              [@ EXCEPT !.classList = ClassListAdd(@, "visible"),
                        !.style = [@ EXCEPT !.opacity = ToString(1),
                                            !.transform = "translateY(0)"]]]
      ELSE [d EXCEPT ![entry.target] =
              [@ EXCEPT !.style = [@ EXCEPT !.opacity = ToString(0),
                                            !.transform = "translateY(20px)"]]]

\* Mutation: the isIntersecting test dropped, every entry reveals.
RevealEntry_Unconditional(d, entry) ==
    [d EXCEPT ![entry.target] =
        [@ EXCEPT !.classList = ClassListAdd(@, "visible"),
                  !.style = [@ EXCEPT !.opacity = ToString(1),
                                      !.transform = "translateY(0)"]]]

\* Mutation: the styles are set but the class is not added.
RevealEntry_NoClass(d, entry) ==
    IF entry.isIntersecting
      THEN [d EXCEPT ![entry.target] =
              [@ EXCEPT !.style = [@ EXCEPT !.opacity = ToString(1),
                                            !.transform = "translateY(0)"]]]
      ELSE d

\* Mutation: the isIntersecting test negated.
RevealEntry_Negated(d, entry) ==
    IF ~entry.isIntersecting
      THEN [d EXCEPT ![entry.target] =
              [@ EXCEPT !.classList = ClassListAdd(@, "visible"),
                        !.style = [@ EXCEPT !.opacity = ToString(1),
                                            !.transform = "translateY(0)"]]]
      ELSE d

\* The body of entries.forEach for one entry, lines 60-64.
RevealEntry(d, entry) ==
    IF entry.isIntersecting
      THEN [d EXCEPT ![entry.target] =
              [@ EXCEPT !.classList = ClassListAdd(@, "visible"),
                        !.style = [@ EXCEPT !.opacity = ToString(1),
                                            !.transform = "translateY(0)"]]]
      ELSE d

RECURSIVE ForEachEntry(_, _)
ForEachEntry(d, entries) ==
    IF entries = <<>> THEN d
    ELSE ForEachEntry(RevealEntry(d, Head(entries)), Tail(entries))

\* Ratios the observer reports: out of view, below the threshold, exactly
\* at the threshold, above it.
Ratios == {0, 5, 10, 50}

\* The observer reports a target as intersecting when the ratio has reached
\* the threshold it was created with; below it the entry carries the ratio
\* with isIntersecting false.
IsIntersecting(ratio, threshold) == ratio >= threshold

Entries(targets, threshold) ==
    {[target |-> t, isIntersecting |-> IsIntersecting(r, threshold),
      intersectionRatio |-> r] : t \in targets, r \in Ratios}

Batches(targets, threshold) ==
    UNION {[1..n -> Entries(targets, threshold)] : n \in 1..MaxBatch}

IsVisible(node) ==
    /\ Has(node.classList, "visible")
    /\ node.style.opacity = "1"
    /\ node.style.transform = "translateY(0)"

IsHidden(node) ==
    /\ node.style.opacity = "0"
    /\ node.style.transform = "translateY(20px)"
    /\ node.style.transition = "opacity 0.6s ease-out, transform 0.6s ease-out"

\* Nodes that receive an intersecting entry when already Visible.
RECURSIVE Revisits(_, _)
Revisits(d, entries) ==
    IF entries = <<>> THEN {}
    ELSE (IF Head(entries).isIntersecting /\ IsVisible(d[Head(entries).target])
            THEN {Head(entries).target} ELSE {})
         \cup Revisits(RevealEntry(d, Head(entries)), Tail(entries))

\* How many entries of the batch mutate node n.
RECURSIVE Mutations(_, _, _)
Mutations(d, entries, n) ==
    IF entries = <<>> THEN 0
    ELSE (IF RevealEntry(d, Head(entries))[n] # d[n] THEN 1 ELSE 0)
         + Mutations(RevealEntry(d, Head(entries)), Tail(entries), n)

\* What is recorded of a delivered batch: the targets it reports, those it
\* reports intersecting, and those it reports with a ratio above the
\* observer's threshold and at or above it.
Delivered(entries) ==
    [kind     |-> "intersect",
     reported |-> {entries[i].target : i \in 1..Len(entries)},
     entered  |-> {entries[i].target : i \in {j \in 1..Len(entries) : entries[j].isIntersecting}},
     above    |-> {entries[i].target : i \in {j \in 1..Len(entries) :
                        entries[j].intersectionRatio > observer.threshold}},
     reached  |-> {entries[i].target : i \in {j \in 1..Len(entries) :
                        entries[j].intersectionRatio >= observer.threshold}}]

IntersectionCallback(entries) ==
    /\ pc = "done"
    /\ observer # NoObserver
    /\ dom' = ForEachEntry(dom, entries)
    /\ notified' = notified \cup {entries[i].target : i \in 1..Len(entries)}
    /\ revisited' = revisited \cup Revisits(dom, entries)
    /\ changes' = [n \in Nodes |-> changes[n] + Mutations(dom, entries, n)]
    /\ last' = Delivered(entries)
    /\ UNCHANGED <<heroChartEl, markup, pc, chart, bound, observer, observed,
                   scrolls, navigations, errors, clicks>>

----------------------------------------------------------------------------
(* The page and its behaviours *)

Init ==
    /\ heroChartEl \in HeroChartKinds
    /\ \E page \in Pages : dom = [n \in Nodes |-> IF n = "n1" THEN page[1] ELSE page[2]]
    /\ markup = [n \in Nodes |-> dom[n].classList]
    /\ pc = "chart"
    /\ chart = NoChart
    /\ bound = {}
    /\ observer = NoObserver
    /\ observed = {}
    /\ scrolls = <<>>
    /\ navigations = <<>>
    /\ errors = <<>>
    /\ clicks = 0
    /\ notified = {}
    /\ revisited = {}
    /\ changes = [n \in Nodes |-> 0]
    /\ last = [kind |-> "none"]

Next ==
    \/ ChartSetup
    \/ BindAnchors
    \/ CreateObserver
    \/ AnimateElements
    \/ \E a \in Anchors : ClickHandler(a)
    \/ \E a \in Anchors : ClickDefault(a)
    \/ \E entries \in Batches(observed, observer.threshold) : IntersectionCallback(entries)

Spec == Init /\ [][Next]_vars

----------------------------------------------------------------------------
(* Properties *)

Resolves(a) ==
    StartsWithHash(Href(a)) /\ QuerySelector(Href(a)).status = "found"

Unresolvable(a) ==
    StartsWithHash(Href(a)) /\ QuerySelector(Href(a)).status # "found"

ClickStep(a) == clicks' = clicks + 1 /\ last'.anchor = a

IntersectStep == last'.kind = "intersect" /\ clicks' = clicks

\* C1: when the 'heroChart' canvas is absent, once the script has ended
\* every same-page anchor still carries the click listener and every
\* animated element is still hidden and observed.
C1_ChartAbsentOthersWork ==
    (ScriptEnded /\ heroChartEl = "absent") =>
        /\ bound = SelectedAnchors
        /\ observer = observerOptions
        /\ observed = animatedElements(dom)
        /\ \A n \in animatedElements(dom) : dom[n].style.transition # ""

\* C2: every click on an anchor whose fragment resolves prevents the
\* default navigation and issues exactly one smooth scrollIntoView request
\* on the target element.
C2_ClickScrollsOnce ==
    [][\A a \in Anchors : (ClickStep(a) /\ Resolves(a)) =>
          /\ navigations' = navigations
          /\ scrolls' = Append(scrolls, [target |-> QuerySelector(Href(a)).el,
                                         behavior |-> "smooth"])]_vars

\* C3: a click on an anchor whose fragment does not resolve raises one
\* error in that handler invocation and leaves every listener and the
\* observer in place.
C3_FailedClickRaisesAndIsolated ==
    [][\A a \in Anchors : (ClickStep(a) /\ Unresolvable(a)) =>
          /\ Len(errors') = Len(errors) + 1
          /\ scrolls' = scrolls
          /\ bound' = bound /\ observer' = observer /\ observed' = observed
          /\ dom' = dom]_vars

\* C4: every element of the three animated categories is Hidden (opacity 0,
\* translateY(20px), transition armed) until a callback entry concerns it,
\* so the first entry delivered for an element finds it Hidden.
C4_HiddenBeforeFirstEntry ==
    [][/\ \A n \in notified' \ notified : IsHidden(dom[n]) /\ n \in observed
       /\ (pc' = "done" =>
             \A n \in animatedElements(dom') \ notified' : IsHidden(dom'[n]))]_vars

C4_Witness ==
    \E n \in Nodes :
        /\ n \in notified
        /\ last.kind = "intersect"
        /\ n \in last.reported
        /\ \E m \in animatedElements(dom) \ notified : IsHidden(dom[m])

\* C5 (as stated): an intersection event reveals a Hidden element if and
\* only if the ratio it reports exceeds the 0.1 threshold.
C5_RevealIffRatioAboveThreshold ==
    [][IntersectStep =>
         \A n \in observed : IsHidden(dom[n]) =>
            IF n \in last'.above
              THEN IsVisible(dom'[n])
              ELSE dom'[n] = dom[n]]_vars

\* C5 (amended): an intersection event reveals a Hidden element if and only
\* if the ratio it reports is at least the 0.1 threshold: a ratio of 0.5 or
\* of exactly 0.1 reveals it, a ratio of 0.05 changes nothing.
C5_RevealIffRatioReachesThreshold ==
    [][IntersectStep =>
         \A n \in observed : IsHidden(dom[n]) =>
            IF n \in last'.reached
              THEN IsVisible(dom'[n])
              ELSE dom'[n] = dom[n]]_vars

C5_Witness ==
    /\ last.kind = "intersect"
    /\ \E n, m \in observed :
         /\ n \in last.reached \ last.above /\ IsVisible(dom[n]) /\ changes[n] = 1
         /\ m \in last.reported \ last.reached /\ IsHidden(dom[m])

\* C6: once an element is Visible, no later intersection event or click
\* returns it to Hidden: Visible is preserved by every step.
C6_VisibleIsTerminal ==
    [][\A n \in Nodes : IsVisible(dom[n]) =>
          IsVisible(dom'[n]) /\ ~IsHidden(dom'[n])]_vars

C6_Witness ==
    \E n \in Nodes :
        /\ IsVisible(dom[n])
        /\ last.kind = "intersect"
        /\ n \in last.reported
        /\ n \notin last.entered
        /\ Len(scrolls) > 0

\* C7: each element is mutated by at most one callback entry, and an entry
\* delivered for an element that is already Visible leaves its class list,
\* opacity and offset exactly as they were.
C7_RevealIdempotent ==
    [][\A n \in Nodes :
          /\ changes'[n] <= 1
          /\ (IsVisible(dom[n]) => dom'[n] = dom[n])]_vars

C7_Witness ==
    \E n \in revisited :
        /\ changes[n] = 1
        /\ last.kind = "intersect"
        /\ n \in last.entered

\* C8: the configuration handed to the charting library carries the data
\* 65, 59, 80, 81, 56, 95, 75 paired in order with the labels Jan..Jul, and
\* no later step changes it.
C8_ChartDataset ==
    [][/\ (chart' # NoChart =>
             /\ chart'.data = <<65, 59, 80, 81, 56, 95, 75>>
             /\ chart'.labels = <<"Jan", "Feb", "Mar", "Apr", "May", "Jun", "Jul">>
             /\ Len(chart'.data) = Len(chart'.labels))
       /\ (chart # NoChart => chart' = chart)]_vars

C8_Witness ==
    /\ chart # NoChart
    /\ clicks > 0
    /\ \E n \in Nodes : IsVisible(dom[n])

\* C9: an intersection callback changes only the elements whose own entry
\* reports intersecting and leaves the scroll and navigation state alone; a
\* click, whether it scrolls or throws, changes no element.
C9_HandlersDoNotInterfere ==
    [][/\ (IntersectStep =>
             /\ \A n \in Nodes : n \notin last'.entered => dom'[n] = dom[n]
             /\ scrolls' = scrolls /\ navigations' = navigations
             /\ errors' = errors /\ bound' = bound)
       /\ (clicks' # clicks => dom' = dom /\ observed' = observed)]_vars

C9_Witness ==
    /\ last.kind = "intersect"
    /\ \E n, m \in observed :
         /\ n # m
         /\ n \in last.entered /\ IsVisible(dom[n])
         /\ m \in last.reported /\ m \notin last.entered /\ IsHidden(dom[m])
    /\ Len(scrolls) > 0
    /\ Len(errors) > 0

\* C10: once the script has run, every observed element whose markup did
\* not carry 'visible' has class 'visible' exactly when its opacity is 1 and
\* its offset translateY(0), and otherwise has opacity 0 and translateY(20px).
C10_ClassAgreesWithStyle ==
    pc = "done" =>
        \A n \in observed : ~Has(markup[n], "visible") =>
            /\ Has(dom[n].classList, "visible") <=>
                  (dom[n].style.opacity = "1" /\ dom[n].style.transform = "translateY(0)")
            /\ ~Has(dom[n].classList, "visible") =>
                  (dom[n].style.opacity = "0" /\ dom[n].style.transform = "translateY(20px)")

C10_Witness ==
    /\ pc = "done"
    /\ \E n, m \in observed :
         /\ ~Has(markup[n], "visible") /\ ~Has(markup[m], "visible")
         /\ Has(dom[n].classList, "visible")
         /\ ~Has(dom[m].classList, "visible")
         /\ m \in notified

====
